---------------------------- MODULE Spec2Model ----------------------------
(***************************************************************************)
(* A model of src/server.js: an Express relay in front of an upstream AI   *)
(* API.  Every request walks the middleware chain of its route             *)
(* (rate limiter, multer upload, handler); a relay handler suspends at its *)
(* `await axios.post(...)` until the upstream settles the call.            *)
(*                                                                         *)
(* Scope: requests whose body the global body parsers (lines 15-16) accept *)
(* (a JSON array/object, a multipart form, or no body).  The third-party   *)
(* libraries are modelled by what they do at the call sites of server.js:  *)
(* RateLimiterMemory.consume (rate-limiter-flexible), multer's             *)
(* single/array middleware, axios.post and Express's default error         *)
(* handler.                                                                *)
(***************************************************************************)
EXTENDS Integers, Sequences, FiniteSets, TLC

(***************************************************************************)
(* Program constants                                                       *)
(***************************************************************************)
Points == 100
Duration == 15 * 60
ImageFileSize == 10 * 1024 * 1024
AudioFileSize == 25 * 1024 * 1024
MaxTokens == 300

(***************************************************************************)
(* Bounds of the model                                                     *)
(***************************************************************************)
MaxOver == 2
MaxBurst == 2
MaxFiles == 2
MaxTime == 1000
ClockStep == 450

Clients == {"10.0.0.1", "10.0.0.2"}
HeavyClient == "10.0.0.1"
ReqIds == {1, 2}

ChatUrl == "https://api.uniapi.me/v1/chat/completions"
TranscribeUrl == "https://api.uniapi.me/v1/audio/transcriptions"

GenericError ==
  << "{", "\"error\"", ":", "\"An error occurred while processing your request.\"", "}" >>
TooManyRequests == << "Too Many Requests" >>
HealthOK == << "OK" >>
DefaultErrorPage == << "<pre>Internal Server Error</pre>" >>
DefaultPrompt == "Please analyze the following images and provide a summary."
SystemPrompt ==
  "You are a helpful assistant that analyzes notes including text and images."

\* a MIME type "t/s" is the pair << t, s >>
AudioMimeTypes ==
  { << "audio", "mpeg" >>, << "audio", "mp4" >>, << "audio", "wav" >>,
    << "audio", "webm" >>, << "audio", "m4a" >> }

(***************************************************************************)
(* JSON texts are sequences of tokens of a flat array of numbers; a parsed *)
(* value is the sequence of the JavaScript numbers, each written the way   *)
(* JavaScript prints it.                                                   *)
(***************************************************************************)
NumberLexemes == {"1", "1.0", "9007199254740992", "9007199254740993"}

\* Number(lexeme) printed back: IEEE-754 double, shortest round-trip form
NumberValue(lex) ==
  CASE lex = "1" -> "1"
    [] lex = "1.0" -> "1"
    [] lex = "9007199254740993" -> "9007199254740992"
    [] OTHER -> lex

RECURSIVE JSONparse(_)
JSONparse(text) ==
  IF text = << >> THEN << >>
  ELSE IF Head(text) \in NumberLexemes
       THEN << NumberValue(Head(text)) >> \o JSONparse(Tail(text))
       ELSE JSONparse(Tail(text))

RECURSIVE JoinValues(_)
JoinValues(vals) ==
  IF vals = << >> THEN << >>
  ELSE IF Len(vals) = 1 THEN << Head(vals) >>
  ELSE << Head(vals), "," >> \o JoinValues(Tail(vals))

JSONstringify(vals) == << "[" >> \o JoinValues(vals) \o << "]" >>

Base64(data) == << "base64", data >>

(***************************************************************************)
(* State                                                                   *)
(***************************************************************************)
VARIABLES
  now,      \* wall clock, in seconds
  storage,  \* rateLimiter's memory storage: key -> << >> or << [value, expiresAt] >>
  pc,       \* where each request is in its route's chain
  req,      \* the Express request object of each request
  calls,    \* the axios.post calls each request made: url, body, settled
  res       \* the responses sent for each request

vars == << now, storage, pc, req, calls, res >>

IdleReq ==
  [ip |-> "", route |-> "", kind |-> "none", raw |-> << >>, body |-> << >>,
   form |-> << >>, text |-> << >>, parts |-> << >>, file |-> << >>, files |-> << >>, rl |-> 0]

Init ==
  /\ now = 0
  /\ storage = [c \in Clients |-> << >>]
  /\ pc = [r \in ReqIds |-> "idle"]
  /\ req = [r \in ReqIds |-> IdleReq]
  /\ calls = [r \in ReqIds |-> << >>]
  /\ res = [r \in ReqIds |-> << >>]

(***************************************************************************)
(* Routing                                                                 *)
(***************************************************************************)
\* a chain that parses the upload before it checks the rate
RouteChainUploadFirst(route) ==
  CASE route = "chat" -> << "rateLimiterMiddleware", "chat" >>
    [] route = "transcribe" -> << "audioUpload", "rateLimiterMiddleware", "transcribe" >>
    [] route = "process-notes" -> << "imageUpload", "rateLimiterMiddleware", "process-notes" >>
    [] route = "health" -> << "health" >>

\* the rate limiter mounted on every route, the health route included
RouteChainLimitedHealth(route) ==
  CASE route = "chat" -> << "rateLimiterMiddleware", "chat" >>
    [] route = "transcribe" -> << "rateLimiterMiddleware", "audioUpload", "transcribe" >>
    [] route = "process-notes" -> << "rateLimiterMiddleware", "imageUpload", "process-notes" >>
    [] route = "health" -> << "rateLimiterMiddleware", "health" >>

RouteChain(route) ==
  CASE route = "chat" -> << "rateLimiterMiddleware", "chat" >>
    [] route = "transcribe" -> << "rateLimiterMiddleware", "audioUpload", "transcribe" >>
    [] route = "process-notes" -> << "rateLimiterMiddleware", "imageUpload", "process-notes" >>
    [] route = "health" -> << "health" >>

RECURSIVE After(_, _)
After(chain, stage) ==
  IF Head(chain) = stage THEN Head(Tail(chain)) ELSE After(Tail(chain), stage)

\* next(): the stage that follows `stage` in the chain of the request's route
NextStage(r, stage) == After(RouteChain(req[r].route), stage)

Send(r, status, body) == res' = [res EXCEPT ![r] = Append(@, [status |-> status, body |-> body])]

\* helmet and the body parsers, then the router enters the route's chain
Arrive(r, request) ==
  /\ pc[r] = "idle"
  /\ req' = [req EXCEPT ![r] =
       [IdleReq EXCEPT !.ip = request.ip, !.route = request.route,
                       !.kind = request.kind, !.raw = request.raw,
                       !.form = request.form, !.parts = request.parts,
                       !.body = IF request.kind = "json" THEN JSONparse(request.raw)
                                ELSE << >>]]
  /\ pc' = [pc EXCEPT ![r] = Head(RouteChain(request.route))]
  /\ UNCHANGED << now, storage, calls, res >>

(***************************************************************************)
(* Rate limiter (lines 18-32)                                              *)
(***************************************************************************)
\* a counter that never starts a new window
IncrbyNoExpiry(key) ==
  IF storage[key] # << >>
  THEN [value |-> storage[key][1].value + 1, expiresAt |-> storage[key][1].expiresAt]
  ELSE [value |-> 1, expiresAt |-> now + Duration]

\* MemoryStorage.incrby(key, 1, duration): the record after the call
Incrby(key) ==
  IF storage[key] # << >> /\ storage[key][1].expiresAt - now > 0
  THEN [value |-> storage[key][1].value + 1, expiresAt |-> storage[key][1].expiresAt]
  ELSE [value |-> 1, expiresAt |-> now + Duration]

\* an off-by-one quota: the 100th request is rejected
ConsumeRejectsAtQuota(consumedPoints) == consumedPoints >= Points

\* consume() rejects its promise when more than `points` are consumed
ConsumeRejects(consumedPoints) == consumedPoints > Points

rateLimiterMiddleware(r) ==
  /\ pc[r] = "rateLimiterMiddleware"
  /\ LET key == req[r].ip
         rec == Incrby(key)
     IN /\ storage' = [storage EXCEPT ![key] = << rec >>]
        /\ req' = [req EXCEPT ![r].rl = rec.value]
        /\ IF ConsumeRejects(rec.value)
           THEN /\ Send(r, 429, TooManyRequests)
                /\ pc' = [pc EXCEPT ![r] = "done"]
           ELSE /\ pc' = [pc EXCEPT ![r] = NextStage(r, "rateLimiterMiddleware")]
                /\ UNCHANGED res
  /\ UNCHANGED << now, calls >>

\* the timer MemoryStorage.set() arms deletes the record once its window is over
ExpireKey(c) ==
  /\ storage[c] # << >>
  /\ storage[c][1].expiresAt <= now
  /\ storage' = [storage EXCEPT ![c] = << >>]
  /\ UNCHANGED << now, pc, req, calls, res >>

Tick ==
  /\ now + ClockStep <= MaxTime
  /\ now' = now + ClockStep
  /\ UNCHANGED << storage, pc, req, calls, res >>

(***************************************************************************)
(* Uploads (lines 34-70)                                                   *)
(***************************************************************************)
\* a filter that forgets the MIME type
imageFileFilterAnyType(file) == file.fieldname = "images"

imageFileFilter(file) == file.fieldname = "images" /\ file.mimetype[1] = "image"

audioFileFilter(file) == file.fieldname = "file" /\ file.mimetype \in AudioMimeTypes

imageUpload ==
  [stage |-> "imageUpload", name |-> "images", single |-> FALSE, fileSize |-> ImageFileSize]

audioUpload ==
  [stage |-> "audioUpload", name |-> "file", single |-> TRUE, fileSize |-> AudioFileSize]

FileFilter(cfg, file) ==
  IF cfg.stage = "imageUpload" THEN imageFileFilter(file) ELSE audioFileFilter(file)

\* multer on one file part, `count` files of the field already taken:
\* unexpected field or too many files, then the fileFilter, then the size limit
AcceptsFile(cfg, file, count) ==
  /\ file.fieldname = cfg.name
  /\ cfg.single => count < 1
  /\ FileFilter(cfg, file)
  /\ file.size <= cfg.fileSize

RECURSIVE AcceptsAll(_, _, _)
AcceptsAll(cfg, parts, count) ==
  IF parts = << >> THEN TRUE
  ELSE AcceptsFile(cfg, Head(parts), count) /\ AcceptsAll(cfg, Tail(parts), count + 1)

\* upload.single(name) / upload.array(name) as a middleware
Upload(r, cfg) ==
  /\ pc[r] = cfg.stage
  /\ IF req[r].kind # "multipart"
     THEN /\ pc' = [pc EXCEPT ![r] = NextStage(r, cfg.stage)]
          /\ UNCHANGED << req, res >>
     ELSE IF AcceptsAll(cfg, req[r].parts, 0)
     THEN /\ req' = [req EXCEPT ![r].text = req[r].form,
                                ![r].file = IF cfg.single THEN req[r].parts ELSE << >>,
                                ![r].files = IF cfg.single THEN << >> ELSE req[r].parts]
          /\ pc' = [pc EXCEPT ![r] = NextStage(r, cfg.stage)]
          /\ UNCHANGED res
     ELSE \* next(err): Express's default error handler answers
          /\ Send(r, 500, DefaultErrorPage)
          /\ pc' = [pc EXCEPT ![r] = "done"]
          /\ UNCHANGED req
  /\ UNCHANGED << now, storage, calls >>

(***************************************************************************)
(* Relay handlers (lines 72-174)                                           *)
(***************************************************************************)
Pending == [kind |-> "pending", status |-> 0, text |-> << >>]

\* axios.post(url, data, ...): the call is issued and the handler awaits it
Post(r, url, data) ==
  /\ calls' = [calls EXCEPT ![r] = Append(@, [url |-> url, data |-> data, outcome |-> Pending])]
  /\ pc' = [pc EXCEPT ![r] = "await"]

\* a handler that answers with its own request body
ResJsonEcho(r, text) == Send(r, 200, JSONstringify(req[r].body))

\* a handler that keeps `res` in a variable shared by all requests
ResJsonSharedRes(r, text) ==
  LET waiting == { q \in ReqIds : q # r /\ pc[q] = "await" }
  IN IF waiting = {} THEN Send(r, 200, JSONstringify(JSONparse(text)))
     ELSE Send(CHOOSE q \in waiting : TRUE, 200, JSONstringify(JSONparse(text)))

\* res.json(response.data): axios has parsed the upstream JSON, Express serialises it
ResJson(r, text) == Send(r, 200, JSONstringify(JSONparse(text)))

\* a catch block that passes the upstream error on
ChatCatchLeaky(r, error) == Send(r, 500, error.text)

ChatCatch(r, error) == Send(r, 500, GenericError)

\* a handler whose failure escapes to Express's default error handler
TranscribeCatchRethrow(r, error) == Send(r, 500, DefaultErrorPage)

TranscribeCatch(r, error) == Send(r, 500, GenericError)

ProcessNotesCatch(r, error) == Send(r, 500, GenericError)

Settle(r, outcome) ==
  /\ calls' = [calls EXCEPT ![r][Len(calls[r])].outcome = outcome]
  /\ pc' = [pc EXCEPT ![r] = "done"]

chat(r) ==
  /\ pc[r] = "chat"
  /\ Post(r, ChatUrl, JSONstringify(req[r].body))
  /\ UNCHANGED << now, storage, req, res >>

\* the async handler resumes after its await: response passthrough or catch
ChatSettle(r, outcome) ==
  /\ pc[r] = "await"
  /\ req[r].route = "chat"
  /\ Settle(r, outcome)
  /\ IF outcome.kind = "ok" THEN ResJson(r, outcome.text) ELSE ChatCatch(r, outcome)
  /\ UNCHANGED << now, storage, req >>

transcribe(r) ==
  /\ pc[r] = "transcribe"
  /\ IF req[r].file = << >>
     THEN \* req.file is undefined: req.file.buffer throws inside the try block
          /\ TranscribeCatch(r, [kind |-> "TypeError", status |-> 0, text |-> << >>])
          /\ pc' = [pc EXCEPT ![r] = "done"]
          /\ UNCHANGED calls
     ELSE /\ Post(r, TranscribeUrl,
                  [file |-> req[r].file[1].buffer, filename |-> req[r].file[1].originalname,
                   model |-> "whisper-1"])
          /\ UNCHANGED res
  /\ UNCHANGED << now, storage, req >>

TranscribeSettle(r, outcome) ==
  /\ pc[r] = "await"
  /\ req[r].route = "transcribe"
  /\ Settle(r, outcome)
  /\ IF outcome.kind = "ok" THEN ResJson(r, outcome.text) ELSE TranscribeCatch(r, outcome)
  /\ UNCHANGED << now, storage, req >>

\* req.body.text || "Please analyze ..."
TextOrDefault(text) == IF text = << >> \/ text[1] = "" THEN DefaultPrompt ELSE text[1]

ImagePart(file) ==
  [type |-> "image_url",
   image_url |-> [url |-> << "data:", file.mimetype, ";base64,", Base64(file.buffer) >>]]

RECURSIVE ImageParts(_)
ImageParts(files) ==
  IF files = << >> THEN << >>
  ELSE << ImagePart(Head(files)) >> \o ImageParts(Tail(files))

\* a message whose images come before the text
MessagesImagesFirst(text, files) ==
  << [role |-> "system", content |-> SystemPrompt],
     [role |-> "user",
      content |-> ImageParts(files) \o << [type |-> "text", text |-> TextOrDefault(text)] >>] >>

Messages(text, files) ==
  << [role |-> "system", content |-> SystemPrompt],
     [role |-> "user",
      content |-> << [type |-> "text", text |-> TextOrDefault(text)] >> \o ImageParts(files)] >>

processNotes(r) ==
  /\ pc[r] = "process-notes"
  /\ Post(r, ChatUrl,
          [model |-> "gpt-4o-mini", messages |-> Messages(req[r].text, req[r].files),
           max_tokens |-> MaxTokens])
  /\ UNCHANGED << now, storage, req, res >>

ProcessNotesSettle(r, outcome) ==
  /\ pc[r] = "await"
  /\ req[r].route = "process-notes"
  /\ Settle(r, outcome)
  /\ IF outcome.kind = "ok" THEN ResJson(r, outcome.text) ELSE ProcessNotesCatch(r, outcome)
  /\ UNCHANGED << now, storage, req >>

(***************************************************************************)
(* Health endpoint (lines 176-179)                                         *)
(***************************************************************************)
health(r) ==
  /\ pc[r] = "health"
  /\ Send(r, 200, HealthOK)
  /\ pc' = [pc EXCEPT ![r] = "done"]
  /\ UNCHANGED << now, storage, req, calls >>

\* the exchange is over; the server goes on accepting connections
Close(r) ==
  /\ pc[r] = "done"
  /\ pc' = [pc EXCEPT ![r] = "idle"]
  /\ req' = [req EXCEPT ![r] = IdleReq]
  /\ calls' = [calls EXCEPT ![r] = << >>]
  /\ res' = [res EXCEPT ![r] = << >>]
  /\ UNCHANGED << now, storage >>

(***************************************************************************)
(* Inputs                                                                  *)
(***************************************************************************)
JsonTexts ==
  { << "[", "1", "]" >>, << "[", " ", "1.0", "]" >>, << "[", "9007199254740993", "]" >> }

Canonical == << "[", "1", "]" >>

ErrorPayloads ==
  { << "{", "\"error\"", ":", "{", "\"message\"", ":", "\"quota\"", "}", "}" >>,
    << "Bad Gateway" >> }

\* how the upstream settles a call: 2xx with a JSON body, non-2xx, or no response
Outcomes ==
  [kind : {"ok"}, status : {200}, text : JsonTexts]
    \cup [kind : {"http"}, status : {502}, text : ErrorPayloads]
    \cup [kind : {"network"}, status : {0}, text : {<< >>}]

FewOutcomes ==
  { [kind |-> "ok", status |-> 200, text |-> Canonical],
    [kind |-> "http", status |-> 502, text |-> << "Bad Gateway" >>] }

FileParts ==
  [fieldname : {"file", "images", "avatar"},
   originalname : {"upload.bin"},
   mimetype : { << "audio", "mpeg" >>, << "image", "png" >>, << "image", "jpeg" >> },
   size : {1, ImageFileSize + 1, AudioFileSize + 1},
   buffer : {"bytes"}]

GoodAudio ==
  [fieldname |-> "file", originalname |-> "memo.m4a", mimetype |-> << "audio", "m4a" >>,
   size |-> AudioFileSize - 1, buffer |-> "memo"]

GoodImage(n) ==
  [fieldname |-> "images", originalname |-> "page.png", mimetype |-> << "image", "png" >>,
   size |-> ImageFileSize - 1, buffer |-> n]

RECURSIVE SeqsUpTo(_, _)
SeqsUpTo(S, n) ==
  IF n = 0 THEN { << >> }
  ELSE LET shorter == SeqsUpTo(S, n - 1)
       IN shorter \cup { Append(q, x) : q \in shorter, x \in S }

NoBody(ip, route) ==
  [ip |-> ip, route |-> route, kind |-> "none", raw |-> << >>, form |-> << >>, parts |-> << >>]

Json(ip, route, raw) == [NoBody(ip, route) EXCEPT !.kind = "json", !.raw = raw]

Multipart(ip, route, form, parts) ==
  [NoBody(ip, route) EXCEPT !.kind = "multipart", !.form = form, !.parts = parts]

HealthRequests == { NoBody(ip, "health") : ip \in Clients }

\* requests of the relay scenarios: every route, bodies of every JSON shape
RelayRequests ==
  { Json(ip, "chat", raw) : ip \in Clients, raw \in JsonTexts }
    \cup { NoBody(ip, "transcribe") : ip \in Clients }
    \cup { Multipart(ip, "transcribe", << >>, parts) :
             ip \in Clients, parts \in { << >>, << GoodAudio >> } }
    \cup { Multipart(ip, "process-notes", << "my notes" >>, << GoodImage("page1") >>) :
             ip \in Clients }
    \cup HealthRequests

\* requests of the upload scenarios: every mix of file parts
UploadRequests ==
  { Multipart(HeavyClient, "transcribe", << >>, parts) :
      parts \in SeqsUpTo(FileParts \cup {GoodAudio}, MaxFiles) }
    \cup { Multipart(HeavyClient, "process-notes", form, parts) :
             form \in { << >>, << "" >>, << "my notes" >> },
             parts \in SeqsUpTo(FileParts, MaxFiles) }
    \cup { NoBody(HeavyClient, route) : route \in {"transcribe", "process-notes", "health"} }
    \cup { Json(HeavyClient, "chat", Canonical) }

\* requests of the rate-limit scenarios: one of each route
LimiterRequests ==
  { Json(ip, "chat", Canonical) : ip \in Clients }
    \cup { Multipart(ip, "transcribe", << >>, << GoodAudio >>) : ip \in Clients }
    \cup { Multipart(ip, "process-notes", << >>, << >>) : ip \in Clients }
    \cup HealthRequests

Consumed(c) == IF storage[c] = << >> THEN 0 ELSE storage[c][1].value

(***************************************************************************)
(* Specifications                                                          *)
(***************************************************************************)
\* the steps a request takes on its own, between arriving and awaiting
Step(r) ==
  \/ rateLimiterMiddleware(r)
  \/ Upload(r, audioUpload)
  \/ Upload(r, imageUpload)
  \/ chat(r)
  \/ transcribe(r)
  \/ processNotes(r)
  \/ health(r)
  \/ Close(r)

SettleWith(r, outcomes) ==
  \E outcome \in outcomes :
    \/ ChatSettle(r, outcome)
    \/ TranscribeSettle(r, outcome)
    \/ ProcessNotesSettle(r, outcome)

\* concurrent relays: two requests in flight, every upstream outcome
Next ==
  \/ \E r \in ReqIds :
       /\ pc[r] = "idle"
       /\ \E request \in RelayRequests :
            /\ Consumed(request.ip) < MaxBurst
            /\ Arrive(r, request)
  \/ \E r \in ReqIds : Step(r)
  \/ \E r \in ReqIds : SettleWith(r, Outcomes)

Spec == Init /\ [][Next]_vars

\* uploads: one request at a time, every mix of file parts
NextUpload ==
  \/ /\ pc[1] = "idle"
     /\ Consumed(HeavyClient) < MaxBurst
     /\ \E request \in UploadRequests : Arrive(1, request)
  \/ Step(1)
  \/ SettleWith(1, FewOutcomes)

SpecUpload == Init /\ [][NextUpload]_vars

\* rate limiting: a client that uses up its quota, across windows
ArrivalCap(c) == IF c = HeavyClient THEN Points + MaxOver ELSE MaxBurst

NextLimiter ==
  \/ /\ pc[1] = "idle"
     /\ \E request \in LimiterRequests :
          /\ Consumed(request.ip) < ArrivalCap(request.ip)
          /\ Arrive(1, request)
  \/ \E request \in HealthRequests : Arrive(2, request)
  \/ \E r \in ReqIds : Step(r)
  \/ SettleWith(1, FewOutcomes)
  \/ \E c \in Clients : ExpireKey(c)
  \/ Tick

SpecLimiter == Init /\ [][NextLimiter]_vars

(***************************************************************************)
(* Properties                                                              *)
(***************************************************************************)
RateLimitedRoutes == {"chat", "transcribe", "process-notes"}

\* the window of c's stored count is still running
InWindow(c) == storage[c] # << >> /\ now < storage[c][1].expiresAt

\* the place in c's current window of a request reaching the limiter now
Nth(c) == IF InWindow(c) THEN storage[c][1].value + 1 ELSE 1

\* request r is taken through the rate limiter by this step
RateStep(r) == pc[r] = "rateLimiterMiddleware" /\ pc'[r] # "rateLimiterMiddleware"

Response(status, body) == [status |-> status, body |-> body]

\* C1: per address, the 1st to 100th request of a window to the rate-limited
\* routes pass the limiter and every later one (the 101st) gets 429; the count
\* of an address changes only by that address's own requests (or by the end of
\* its window).
C1_QuotaPerAddress ==
  [][ /\ \A r \in ReqIds :
           RateStep(r) =>
             LET c == req[r].ip
                 n == Nth(c)
             IN /\ req[r].route \in RateLimitedRoutes
                /\ storage'[c] # << >> /\ storage'[c][1].value = n
                /\ n <= Points => pc'[r] # "done" /\ res'[r] = << >>
                /\ n > Points => pc'[r] = "done" /\ res'[r] = << Response(429, TooManyRequests) >>
                /\ \A d \in Clients \ {c} : storage'[d] = storage[d]
      /\ \A c \in Clients :
           storage'[c] # storage[c] =>
             \/ \E r \in ReqIds : RateStep(r) /\ req[r].ip = c
             \/ ~InWindow(c) /\ storage'[c] = << >> ]_vars

C1_Witness ==
  \E r \in ReqIds, d \in Clients :
    /\ req[r].rl = Points + 1
    /\ res[r] = << Response(429, TooManyRequests) >>
    /\ d # req[r].ip
    /\ storage[d] # << >>

\* C2: a request the rate limiter rejected has 429 as its only response, made
\* no upstream call and had no upload parsed; on every rate-limited route the
\* rate check is the first stage of the chain.
C2_RejectedStopsThere ==
  /\ \A route \in RateLimitedRoutes : Head(RouteChain(route)) = "rateLimiterMiddleware"
  /\ \A r \in ReqIds :
       req[r].rl > Points =>
         /\ pc[r] = "done"
         /\ res[r] = << Response(429, TooManyRequests) >>
         /\ calls[r] = << >>
         /\ req[r].file = << >> /\ req[r].files = << >> /\ req[r].text = << >>

C2_Witness ==
  \E r \in ReqIds :
    /\ req[r].route = "transcribe"
    /\ req[r].parts # << >>
    /\ req[r].rl > Points
    /\ res[r] = << Response(429, TooManyRequests) >>

\* C3: on each relay route, a failed upstream call (non-2xx or no response)
\* is answered with 500 and the fixed generic body, whatever the upstream
\* error payload.
C3_UpstreamFailureIs500 ==
  \A r \in ReqIds :
    (pc[r] = "done" /\ calls[r] # << >> /\ calls[r][1].outcome.kind \in {"http", "network"}) =>
      /\ res[r] = << Response(500, GenericError) >>
      /\ res[r][1].body # calls[r][1].outcome.text

C3_Witness ==
  \E r, q \in ReqIds :
    /\ r # q
    /\ pc[r] = "done" /\ req[r].route = "chat"
    /\ calls[r] # << >> /\ calls[r][1].outcome.kind = "http"
    /\ pc[q] = "done" /\ req[q].route = "transcribe"
    /\ calls[q] # << >> /\ calls[q][1].outcome.kind = "network"

\* C4 (as stated): after a successful upstream call the body sent to the client
\* is exactly the upstream body, and on the chat route the body sent upstream is
\* exactly the client's body.
C4_Verbatim ==
  \A r \in ReqIds :
    (pc[r] = "done" /\ calls[r] # << >> /\ calls[r][1].outcome.kind = "ok") =>
      /\ res[r] = << Response(200, calls[r][1].outcome.text) >>
      /\ req[r].route = "chat" => calls[r][1].data = req[r].raw

\* C4 (amended): after a successful upstream call the client gets one 200
\* response whose body is a JSON text with the same parsed value as the
\* upstream body, free of whitespace and with every number in its JavaScript
\* spelling; on the chat route the same holds between the body sent upstream
\* and the client's body.
C4_SameJsonValue ==
  \A r \in ReqIds :
    /\ (pc[r] = "done" /\ calls[r] # << >> /\ calls[r][1].outcome.kind = "ok") =>
         /\ Len(res[r]) = 1 /\ res[r][1].status = 200
         /\ JSONparse(res[r][1].body) = JSONparse(calls[r][1].outcome.text)
         /\ \A i \in 1..Len(res[r][1].body) :
              res[r][1].body[i] \in {"[", "]", ","} \cup { NumberValue(x) : x \in NumberLexemes }
    /\ (req[r].route = "chat" /\ calls[r] # << >>) =>
         /\ calls[r][1].url = ChatUrl
         /\ JSONparse(calls[r][1].data) = JSONparse(req[r].raw)
         /\ \A i \in 1..Len(calls[r][1].data) :
              calls[r][1].data[i] \in {"[", "]", ","} \cup { NumberValue(x) : x \in NumberLexemes }

C4_Witness ==
  \E r \in ReqIds :
    /\ pc[r] = "done" /\ req[r].route = "chat"
    /\ req[r].raw = << "[", " ", "1.0", "]" >>
    /\ calls[r] # << >> /\ calls[r][1].outcome.kind = "ok"
    /\ calls[r][1].outcome.text = << "[", "9007199254740993", "]" >>
    /\ res[r] = << Response(200, << "[", "9007199254740992", "]" >>) >>

PassesFilter(route, file) ==
  IF route = "transcribe"
  THEN /\ file.fieldname = "file"
       /\ file.mimetype \in { << "audio", "mpeg" >>, << "audio", "mp4" >>, << "audio", "wav" >>,
                              << "audio", "webm" >>, << "audio", "m4a" >> }
       /\ file.size <= 25 * 1024 * 1024
  ELSE /\ file.fieldname = "images"
       /\ file.mimetype[1] = "image"
       /\ file.size <= 10 * 1024 * 1024

\* C6: on the two upload routes the relay handler is reached, and an upstream
\* call made, only if every uploaded file passed the route's filter; a request
\* with a violating file ends without the handler's response and without a call.
C6_FilterBeforeHandler ==
  \A r \in ReqIds :
    req[r].route \in {"transcribe", "process-notes"} =>
      /\ (pc[r] \in {req[r].route, "await"} \/ calls[r] # << >>) =>
           \A i \in 1..Len(req[r].parts) : PassesFilter(req[r].route, req[r].parts[i])
      /\ (pc[r] = "done" /\ \E i \in 1..Len(req[r].parts) :
                               ~PassesFilter(req[r].route, req[r].parts[i])) =>
           /\ calls[r] = << >>
           /\ Len(res[r]) = 1
           /\ res[r][1].status \in {429, 500}
           /\ res[r][1].body # GenericError

C6_Witness ==
  \E r \in ReqIds :
    /\ req[r].route = "process-notes"
    /\ Len(req[r].parts) = MaxFiles
    /\ PassesFilter("process-notes", req[r].parts[1])
    /\ ~PassesFilter("process-notes", req[r].parts[MaxFiles])
    /\ pc[r] = "done"
    /\ res[r] = << Response(500, DefaultErrorPage) >>

\* C7: the upstream request of a process-notes request with K images has two
\* messages, system then user; the user content has K+1 parts: the text (the
\* default prompt when the text is absent or empty), then the images in upload
\* order.
C7_MessageShape ==
  \A r \in ReqIds :
    (req[r].route = "process-notes" /\ calls[r] # << >>) =>
      LET body == calls[r][1].data
          K == Len(req[r].parts)
          content == body.messages[2].content
      IN /\ Len(body.messages) = 2
         /\ body.messages[1].role = "system"
         /\ body.messages[2].role = "user"
         /\ Len(content) = K + 1
         /\ content[1].type = "text"
         /\ content[1].text = IF req[r].form \in { << >>, << "" >> }
                              THEN "Please analyze the following images and provide a summary."
                              ELSE req[r].form[1]
         /\ \A i \in 1..K :
              /\ content[i + 1].type = "image_url"
              /\ content[i + 1].image_url.url[2] = req[r].parts[i].mimetype
              /\ content[i + 1].image_url.url[4] = << "base64", req[r].parts[i].buffer >>

C7_Witness ==
  \E r \in ReqIds :
    /\ req[r].route = "process-notes" /\ calls[r] # << >>
    /\ req[r].form = << "" >>
    /\ Len(req[r].parts) = MaxFiles
    /\ req[r].parts[1].mimetype # req[r].parts[MaxFiles].mimetype

\* C8 (as stated): the consumed count of an address never exceeds the quota.
C8_CountWithinQuota ==
  \A c \in Clients : storage[c] # << >> => storage[c][1].value <= Points

\* C8 (amended): a request is let through only as one of the first 100 of its
\* address's window; within a window the count grows by one with every request,
\* rejected ones included, and the window's end stays fixed; the first request
\* after the window's end starts a new window with the count at 1.
C8_AdmittedWithinQuota ==
  [][\A r \in ReqIds :
       RateStep(r) =>
         LET c == req[r].ip
         IN /\ pc'[r] # "done" => storage'[c][1].value <= Points
            /\ InWindow(c) =>
                 storage'[c] = << [value |-> storage[c][1].value + 1,
                                   expiresAt |-> storage[c][1].expiresAt] >>
            /\ ~InWindow(c) =>
                 storage'[c] = << [value |-> 1, expiresAt |-> now + Duration] >>]_vars

C8_Witness ==
  \E r \in ReqIds :
    /\ req[r].ip = HeavyClient
    /\ req[r].rl = Points + MaxOver
    /\ res[r] = << Response(429, TooManyRequests) >>
    /\ storage[HeavyClient] # << >> /\ storage[HeavyClient][1].value = Points + MaxOver

\* the response a settled upstream call leads to
Expected(outcome) ==
  IF outcome.kind = "ok" THEN Response(200, JSONstringify(JSONparse(outcome.text)))
  ELSE Response(500, GenericError)

\* C9: while a request awaits its upstream response, every other request can
\* still take its next step and have its own call settled either way; a
\* finished relay's response is the one its own upstream outcome leads to; no
\* request gets more than one response.
C9_Independent ==
  /\ \A r \in ReqIds : Len(res[r]) <= 1
  /\ \A r \in ReqIds :
       (pc[r] = "done" /\ calls[r] # << >>) => res[r] = << Expected(calls[r][1].outcome) >>
  /\ \A r, q \in ReqIds :
       (r # q /\ pc[r] = "await") =>
         /\ pc[q] \notin {"idle", "await"} => ENABLED Step(q)
         /\ pc[q] = "await" => \A outcome \in Outcomes : ENABLED SettleWith(q, {outcome})

C9_Witness ==
  \E r, q \in ReqIds :
    /\ pc[r] = "await" /\ req[r].route = "chat"
    /\ pc[q] = "done" /\ req[q].route = "chat" /\ req[q].ip = req[r].ip
    /\ calls[q] # << >> /\ calls[q][1].outcome.kind = "ok"
    /\ res[q] = << Expected(calls[q][1].outcome) >>

====
